---- MODULE Spec2Model ----
(***************************************************************************)
(* The VQE training engine of PhaseEstimation/vqe.py (class vqe, train,    *)
(* save, load_vqe) and the losses of PhaseEstimation/losses.py.            *)
(*                                                                         *)
(* Orchestration (which Hamiltonian a parameter vector is optimized        *)
(* against, in which order, with which regularization target, what is      *)
(* stored where and when) is modelled on symbolic values: a parameter      *)
(* vector is the term built from its random origin and the sequence of     *)
(* Adam updates applied to it, a state is the circuit applied to such a    *)
(* term, an energy is a state measured under a grid Hamiltonian.  Every    *)
(* call of the random generator yields a vector of its own, named by the   *)
(* call that drew it (draw).  Python                                       *)
(* indices are 0-based; tensors and lists are TLA+ sequences, so grid      *)
(* index i is element i+1 (Row, At).                                       *)
(***************************************************************************)
EXTENDS Integers, Sequences, FiniteSets, TLC

\* ------------------------------------------------------------- bounds
MaxStates == 3
MaxEpochs == 2
MaxRuns == 2

\* -------------------------------------------------- program constants
FirstPointFactor == 10
TrajectoryStride == 10
\* epochs_batch_size = 500 in the signature of train()
DefaultBatchSize == 500

\* ------------------------------------------------- input value sets
RegVals == {0, 1}
BatchSizes == {1, 2}
QubitCounts == {2}
CircuitFuns == {"circuit_ising", "circuit_annni"}
\* draw names: the constructor of the engine, the constructor inside load_vqe
CtorDraw == 0
LoadDraw == -1

VARIABLES
  Hs, circuit_fun, n_params,
  vqe_params, MSE, vqe_e, states, recycle, trajectory, true_states,
  pc, runs, n_epochs, reg, arg_recycle, save_trajectories, epochs_batch_size,
  params, param, opt_state, idx, it, oom, l_MSE, previous_state, pos,
  progress_desc, at_call, calls,
  file, loaded,
  fn_in, fn_out

engineVars == <<Hs, circuit_fun, n_params, vqe_params, MSE, vqe_e, states,
                recycle, trajectory, true_states>>
argVars == <<n_epochs, reg, arg_recycle, save_trajectories, epochs_batch_size>>
frameVars == <<params, param, opt_state, idx, it, oom, l_MSE, previous_state,
               pos, progress_desc>>
persistVars == <<file, loaded>>
\* arguments and results of a loss function applied on its own
fnVars == <<fn_in, fn_out>>
vars == <<engineVars, argVars, frameVars, pc, runs, at_call, calls, persistVars, fnVars>>

\* ------------------------------------------------------- symbolic values
Row(t, i) == t[i + 1]
At(s, k) == s[k + 1]
SetRow(t, i, v) == [t EXCEPT ![i + 1] = v]

NoParam == [init |-> [src |-> "none", draw |-> 0, row |-> 0], hist |-> <<>>]
NoState == [psi |-> NoParam]
Unset == [set |-> FALSE, val |-> <<>>]
Value(v) == [set |-> TRUE, val |-> v]

\* [0]*self.n_params
ZeroRow == [init |-> [src |-> "zeros", draw |-> 0, row |-> 0], hist |-> <<>>]
\* one row of np.random.uniform(-pi, pi, size=(n_states, n_params))
UniformRow(d, i) == [init |-> [src |-> "uniform", draw |-> d, row |-> i], hist |-> <<>>]
\* np.random.rand(self.n_params)
RandParam(d) == [init |-> [src |-> "rand", draw |-> d, row |-> 0], hist |-> <<>>]

Perms(n) == {r \in [1..n -> 0..(n - 1)] : \A a, b \in 1..n : r[a] = r[b] => a = b}

\* The traversal orders explored: the grid order, and the grid order with
\* two of its points exchanged.
RecycleRules(n) == {r \in Perms(n) : Cardinality({i \in 1..n : r[i] # i - 1}) <= 2}
\* The grid object handed to the constructor: mat_Hs[i] and true_e[i] are
\* identified by their grid index i; recycle_rule is the traversal order.
HamiltonianGrids ==
  UNION {{[N |-> q, n_states |-> n, recycle_rule |-> r] :
            q \in QubitCounts, r \in RecycleRules(n)} : n \in 1..MaxStates}
\* The constructor's arguments explored: every grid with the first circuit
\* function, the single-point grids with every circuit function.
ConstructorArgs ==
  {a \in HamiltonianGrids \X CircuitFuns :
     a[2] = "circuit_ising" \/ a[1].n_states = 1}

\* ------------------------------------------------- jax functions of train()
vqe_state(p) == [psi |-> p]
j_vqe_state(p) == vqe_state(p)
v_vqe_state(ps) == [i \in 1..Len(ps) |-> vqe_state(ps[i])]
jv_vqe_state(ps) == v_vqe_state(ps)

compute_true_state(H) == [ground_of |-> H]
jv_compute_true_state(n) == [i \in 1..n |-> compute_true_state(i - 1)]

compute_E(state, H) == [E_of |-> state, H |-> H]
v_compute_vqe_E(ps) == [i \in 1..Len(ps) |-> compute_E(vqe_state(ps[i]), i - 1)]
j_v_compute_vqe_E(ps) == v_compute_vqe_E(ps)

\* jnp.mean(jnp.square(energies - self.Hs.true_e))
MSEof(energies) == [mse_of |-> energies]
\* What line 276 shows: the last recorded cost and the mean fidelity
Description(cost, fid) == [text |-> "Cost | Mean F.", cost |-> cost, meanF |-> fid]
\* MSE.append(...) (lines 262-273), by the jitted or the non-jitted function
RecordPair(l, ps, jitted) ==
  Append(l, [mse_of |-> v_compute_vqe_E(ps),
             mean_fid |-> [i \in 1..Len(ps) |-> vqe_state(ps[i])]])
RecordDiagnostic(l, ps, jitted) ==
  Append(l, MSEof(IF jitted THEN j_v_compute_vqe_E(ps) ELSE v_compute_vqe_E(ps)))
jv_fidelties(true, ps) == [mean_fid |-> [i \in 1..Len(ps) |-> <<true[i], vqe_state(ps[i])>>]]

\* ----------------------------------------------------------- optimizer
opt_init(p) == [p |-> p, k |-> 0]
get_params(os) == os.p
\* The history of a parameter vector is run-length encoded: one entry per
\* maximal run of consecutive updates with the same gradient function, the
\* same Hamiltonian, regularizer and target, by the same optimizer instance.
\* first_step is the number of updates the optimizer instance had applied
\* before the run (0: fresh moment accumulators), steps the run's length.
Continues(h, g, k) ==
  /\ Len(h) > 0 /\ k > 0
  /\ h[Len(h)].loss = g.loss /\ h[Len(h)].H = g.H /\ h[Len(h)].reg = g.reg
  /\ h[Len(h)].target = g.target
  /\ h[Len(h)].first_step + h[Len(h)].steps = k
Stepped(p, g, k) ==
  IF Continues(p.hist, g, k)
  THEN [p EXCEPT !.hist[Len(p.hist)].steps = @ + 1]
  ELSE [p EXCEPT !.hist = Append(@, [loss |-> g.loss, H |-> g.H, reg |-> g.reg,
                                     target |-> g.target, first_step |-> k,
                                     steps |-> 1])]
\* opt_update(0, grads, opt_state) on one parameter vector
opt_update(grads, os) == [p |-> Stepped(os.p, grads, os.k), k |-> os.k + 1]
\* opt_update(0, grads, opt_state) on the whole parameter tensor
opt_update_all(grads, os) ==
  [p |-> [i \in 1..Len(os.p) |-> Stepped(os.p[i], grads[i], os.k)], k |-> os.k + 1]

\* ------------------------------------------------------------ construction
\* vqe.__init__: n_params is what the circuit function consumes on N qubits
CircuitCount(f, q) == [consumed_by |-> f, N |-> q]
RandomTensor(n, d) == [i \in 1..n |-> UniformRow(d, i - 1)]

\* No call of train() is active: its arguments and locals do not exist.
NoFrame ==
  /\ n_epochs = 0 /\ reg = 0 /\ arg_recycle = TRUE
  /\ save_trajectories = FALSE /\ epochs_batch_size = 1
  /\ params = <<>> /\ param = NoParam /\ opt_state = opt_init(NoParam)
  /\ idx = 0 /\ it = 0 /\ oom = FALSE /\ l_MSE = <<>>
  /\ previous_state = NoState /\ pos = 0
  /\ progress_desc = [text |-> "none"]
\* train() is left, by return or by an exception: its frame is dropped.
DropFrame ==
  /\ n_epochs' = 0 /\ reg' = 0 /\ arg_recycle' = TRUE
  /\ save_trajectories' = FALSE /\ epochs_batch_size' = 1
  /\ params' = <<>> /\ param' = NoParam /\ opt_state' = opt_init(NoParam)
  /\ idx' = 0 /\ it' = 0 /\ oom' = FALSE /\ l_MSE' = <<>>
  /\ previous_state' = NoState /\ pos' = 0
  /\ progress_desc' = [text |-> "none"]

\* pc outside a call: never called, returned, or left by the RuntimeError
\* of the jitted batched call at the named line.
RaisedAt == {"raised_180", "raised_276", "raised_350", "raised_351"}
Outside == {"idle", "returned"} \cup RaisedAt

Results == [vqe_params |-> vqe_params, MSE |-> MSE, vqe_e |-> vqe_e, states |-> states]

\* vqe.__init__ (lines 107-119): the attributes of a new engine; draw names
\* the call of np.random.uniform.  states, trajectory and true_states are
\* attributes only train() creates.
vqe_init(H, f, draw) ==
  [N |-> H.N, Hs |-> H, n_states |-> H.n_states, circuit_fun |-> f,
   n_params |-> CircuitCount(f, H.N),
   vqe_params |-> RandomTensor(H.n_states, draw),
   MSE |-> <<>>, vqe_e |-> <<>>, recycle |-> FALSE,
   states |-> Unset, trajectory |-> Unset, true_states |-> Unset]

\* x = vqe(Hs, circuit), not yet trained or saved
Constructed(a) ==
  /\ LET x == vqe_init(a[1], a[2], CtorDraw)
     IN /\ Hs = x.Hs /\ circuit_fun = x.circuit_fun /\ n_params = x.n_params
        /\ vqe_params = x.vqe_params /\ MSE = x.MSE /\ vqe_e = x.vqe_e
        /\ recycle = x.recycle /\ states = x.states
        /\ trajectory = x.trajectory /\ true_states = x.true_states
  /\ pc = "idle" /\ runs = 0
  /\ NoFrame
  /\ at_call = Results /\ calls = <<>>
  /\ file = Unset /\ loaded = Unset

NoCall == [fn |-> "none"]

Init ==
  /\ \E a \in ConstructorArgs : Constructed(a)
  /\ fn_in = NoCall /\ fn_out = NoCall

\* ------------------------------------------------- train(): independent mode
\* calls: the state and energy evaluation functions the last step invoked,
\* in order.  The names with a leading j are the jax.jit-compiled ones.
JittedFunctions ==
  {"jv_compute_true_state", "j_v_compute_vqe_E", "jv_vqe_state", "j_vqe_state",
   "jv_fidelties"}
\* lines 260-276: the energy evaluation of a diagnostic epoch (the jitted
\* function unless oom, then on RuntimeError the non-jitted one), followed by
\* jv_fidelties inside set_description
DiagnosticCalls(o, failE) ==
  (IF ~o
   THEN <<"j_v_compute_vqe_E">> \o (IF failE THEN <<"v_compute_vqe_E">> ELSE <<>>)
   ELSE <<"v_compute_vqe_E">>) \o <<"jv_fidelties">>
\* (it + 1) % epochs_batch_size == 0 (line 259)
DiagnosticEpochFromZero(i, b) == i % b = 0
DiagnosticEpoch(i, b) == (i + 1) % b = 0
\* it % 10 == 0 (line 278)
TrajectoryEpochAfterStride(i) == (i + 1) % TrajectoryStride = 0
TrajectoryEpoch(i) == i % TrajectoryStride = 0
\* MSE = [] (lines 248, 318): the local list of a call starts empty
KeepDiagnostics(old) == old
FreshDiagnostics(old) == <<>>
\* lines 349-354: the functions of the final energies and states
FinalAlwaysJitted(o) == <<"j_v_compute_vqe_E", "jv_vqe_state">>
FinalFunctions(o) ==
  IF ~o THEN <<"j_v_compute_vqe_E", "jv_vqe_state">>
  ELSE <<"v_compute_vqe_E", "v_vqe_state">>

\* jd_loss = jax.jit(jax.grad(loss)), loss of lines 228-235, one entry per row
jd_loss_all(ps, r) ==
  [i \in 1..Len(ps) |->
     [loss |-> IF r # 0 THEN "mean_energy_plus_neighbouring" ELSE "mean_energy",
      H |-> i - 1, reg |-> r, target |-> NoState]]
UpdateFirstRowOnly(ps, os, r) ==
  LET os1 == opt_update_all(jd_loss_all(ps, r), os)
      q == [i \in 1..Len(ps) |-> IF i = 1 THEN os1.p[i] ELSE ps[i]]
  IN <<q, [os1 EXCEPT !.p = q]>>
update_all(ps, os, r) ==
  LET os1 == opt_update_all(jd_loss_all(ps, r), os) IN <<get_params(os1), os1>>

\* ----------------------------------------------------- train(): recycle mode
jd_loss(p, H) == [loss |-> "energy", H |-> H, reg |-> 0, target |-> NoState]
jd_loss_reg(p, H, r, prev) ==
  [loss |-> "energy_plus_fidelity", H |-> H, reg |-> r, target |-> prev]
update(p, os, H) ==
  LET os1 == opt_update(jd_loss(p, H), os) IN <<get_params(os1), os1>>
UpdateUnregularized(p, os, H, r, prev) ==
  LET os1 == opt_update(jd_loss(p, H), os) IN <<get_params(os1), os1>>
update_reg(p, os, H, r, prev) ==
  LET os1 == opt_update(jd_loss_reg(p, H, r, prev), os) IN <<get_params(os1), os1>>

\* idx = 0 (line 321): the grid index of the first optimized point
FirstIdx(rule) == 0
\* progress = tqdm(self.Hs.recycle_rule[1:]) (line 314)
ProgressWholeRule(rule) == rule
Progress(rule) == SubSeq(rule, 2, Len(rule))
\* previous_state = j_vqe_state(param) (lines 330, 343)
StalePreviousState(p, prev) == IF prev = NoState THEN j_vqe_state(p) ELSE prev
NextPreviousState(p, prev) == j_vqe_state(p)
\* opt_init, ... = optimizers.adam(lr); opt_state = opt_init(param)
\* (lines 335-336): a new optimizer instance around the current vector
KeepOptimizer(p, os) == os
ReinitOptimizer(p, os) == opt_init(p)
\* params = [[0]*self.n_params]*self.n_states (line 315)
Placeholder(n) == [i \in 1..n |-> ZeroRow]

\* train(): everything up to the first optimization step.
\*   lines 158-226, 246-253 (recycle=False) or 282-325 (recycle=True)
Train(a_epochs, a_reg, a_recycle, a_save, a_batch, fail) ==
  /\ pc \in Outside
  /\ runs' = runs + 1
  /\ at_call' = Results
  /\ calls' = <<"jv_compute_true_state">>
  /\ UNCHANGED <<Hs, circuit_fun, n_params, vqe_params, MSE, vqe_e, states,
                 persistVars, fnVars>>
  /\ IF fail
     THEN \* jv_compute_true_state raises (line 180)
          /\ pc' = "raised_180"
          /\ UNCHANGED <<recycle, trajectory, true_states, argVars, frameVars>>
     ELSE /\ n_epochs' = a_epochs /\ reg' = a_reg /\ arg_recycle' = a_recycle
          /\ save_trajectories' = a_save /\ epochs_batch_size' = a_batch
          /\ true_states' = Value(jv_compute_true_state(Hs.n_states))
          /\ oom' = FALSE /\ l_MSE' = FreshDiagnostics(MSE) /\ it' = 0
          /\ previous_state' = NoState
          /\ progress_desc' = [text |-> "none"]
          /\ IF ~a_recycle
             THEN /\ recycle' = FALSE
                  /\ trajectory' = Value(<<>>)
                  /\ params' = vqe_params
                  /\ opt_state' = opt_init(vqe_params)
                  /\ param' = NoParam /\ idx' = 0 /\ pos' = 0
                  /\ pc' = IF a_epochs = 0 THEN "finalize" ELSE "indep_loop"
             ELSE /\ recycle' = TRUE
                  /\ UNCHANGED trajectory
                  /\ params' = Placeholder(Hs.n_states)
                  /\ param' = RandParam(runs + 1)
                  /\ idx' = FirstIdx(Hs.recycle_rule)
                  /\ opt_state' = opt_init(RandParam(runs + 1))
                  /\ pos' = 0
                  /\ pc' = IF a_epochs = 0 THEN "first_done" ELSE "first_loop"

\* One pass of the loop body, lines 255-280.
IndepEpoch(failE, failF) ==
  /\ pc = "indep_loop" /\ it < n_epochs
  /\ LET upd == update_all(params, opt_state, reg)
         diag == DiagnosticEpoch(it, epochs_batch_size)
         mse == IF diag THEN RecordDiagnostic(l_MSE, upd[1], ~oom /\ ~failE)
                ELSE l_MSE
     IN
     /\ IF diag /\ failF
        THEN \* jv_fidelties raises inside set_description (line 276)
             /\ pc' = "raised_276"
             /\ DropFrame
             /\ UNCHANGED trajectory
        ELSE /\ params' = upd[1] /\ opt_state' = upd[2]
             /\ oom' = (oom \/ (diag /\ failE))
             /\ l_MSE' = mse
             /\ progress_desc' =
                  IF diag
                  THEN Description(mse[Len(mse)],
                                   jv_fidelties(true_states.val, upd[1]))
                  ELSE progress_desc
             /\ trajectory' =
                  IF TrajectoryEpoch(it) /\ save_trajectories
                  THEN Value(Append(trajectory.val, upd[1]))
                  ELSE trajectory
             /\ it' = it + 1
             /\ pc' = IF it + 1 = n_epochs THEN "finalize" ELSE "indep_loop"
             /\ UNCHANGED <<argVars, param, idx, previous_state, pos>>
     /\ calls' = IF diag THEN DiagnosticCalls(oom, failE) ELSE <<>>
  /\ UNCHANGED <<Hs, circuit_fun, n_params, vqe_params, MSE, vqe_e, states,
                 recycle, true_states, runs, at_call, persistVars, fnVars>>

\* One pass of the first point's loop, lines 327-328.
FirstEpoch ==
  /\ pc = "first_loop" /\ it < FirstPointFactor * n_epochs
  /\ LET upd == update(param, opt_state, idx)
     IN param' = upd[1] /\ opt_state' = upd[2]
  /\ it' = it + 1
  /\ pc' = IF it + 1 = FirstPointFactor * n_epochs THEN "first_done" ELSE "first_loop"
  /\ UNCHANGED <<engineVars, argVars, params, idx, oom, l_MSE, previous_state,
                 pos, progress_desc, runs, at_call, persistVars, fnVars>>
  /\ calls' = <<>>

\* Lines 330-332.
FirstDone ==
  /\ pc = "first_done"
  /\ previous_state' = NextPreviousState(param, previous_state)
  /\ params' = SetRow(params, idx, param)
  /\ progress_desc' = [text |-> "idx/n_states", done |-> idx + 1, of |-> Hs.n_states]
  /\ pos' = 0
  /\ pc' = "points"
  /\ UNCHANGED <<engineVars, argVars, param, opt_state, idx, it, oom, l_MSE,
                 runs, at_call, persistVars, fnVars>>
  /\ calls' = <<"j_vqe_state">>

\* Head of the loop over progress, lines 334-336; after the last point line 344.
PointStart ==
  /\ pc = "points"
  /\ IF pos < Len(Progress(Hs.recycle_rule))
     THEN /\ idx' = At(Progress(Hs.recycle_rule), pos)
          /\ opt_state' = ReinitOptimizer(param, opt_state)
          /\ it' = 0
          /\ pc' = IF n_epochs = 0 THEN "point_done" ELSE "reg_loop"
     ELSE /\ pc' = "finalize"
          /\ UNCHANGED <<idx, opt_state, it>>
  /\ UNCHANGED <<engineVars, argVars, params, param, oom, l_MSE, previous_state,
                 pos, progress_desc, runs, at_call, persistVars, fnVars>>
  /\ calls' = <<>>

\* One pass of a later point's loop, lines 338-339.
RegEpoch ==
  /\ pc = "reg_loop" /\ it < n_epochs
  /\ LET upd == update_reg(param, opt_state, idx, reg, previous_state)
     IN param' = upd[1] /\ opt_state' = upd[2]
  /\ it' = it + 1
  /\ pc' = IF it + 1 = n_epochs THEN "point_done" ELSE "reg_loop"
  /\ UNCHANGED <<engineVars, argVars, params, idx, oom, l_MSE, previous_state,
                 pos, progress_desc, runs, at_call, persistVars, fnVars>>
  /\ calls' = <<>>

\* Lines 341-343.
PointDone ==
  /\ pc = "point_done"
  /\ params' = SetRow(params, idx, param)
  /\ progress_desc' = [text |-> "idx/n_states", done |-> idx + 1, of |-> Hs.n_states]
  /\ previous_state' = NextPreviousState(param, previous_state)
  /\ pos' = pos + 1
  /\ pc' = "points"
  /\ UNCHANGED <<engineVars, argVars, param, opt_state, idx, it, oom, l_MSE,
                 runs, at_call, persistVars, fnVars>>
  /\ calls' = <<"j_vqe_state">>

\* Lines 346-354.
Finalize(failE, failS) ==
  /\ pc = "finalize"
  /\ MSE' = l_MSE
  /\ vqe_params' = params
  /\ IF ~oom
     THEN IF failE
          THEN \* j_v_compute_vqe_E raises (line 350)
               /\ pc' = "raised_350" /\ UNCHANGED <<vqe_e, states>>
          ELSE /\ vqe_e' = j_v_compute_vqe_E(params)
               /\ IF failS
                  THEN \* jv_vqe_state raises (line 351)
                       /\ pc' = "raised_351" /\ UNCHANGED states
                  ELSE /\ states' = Value(jv_vqe_state(params))
                       /\ pc' = "returned"
     ELSE /\ vqe_e' = v_compute_vqe_E(params)
          /\ states' = Value(v_vqe_state(params))
          /\ pc' = "returned"
  /\ calls' = IF ~oom /\ failE THEN SubSeq(FinalFunctions(oom), 1, 1)
               ELSE FinalFunctions(oom)
  /\ DropFrame
  /\ UNCHANGED <<Hs, circuit_fun, n_params, recycle, trajectory, true_states,
                 runs, at_call, persistVars, fnVars>>

\* ------------------------------------------------------------ persistence
\* things_to_save (lines 367-371)
SaveCallTimeParams ==
  [Hs |-> Hs, vqe_params |-> at_call.vqe_params, circuit_fun |-> circuit_fun]
things_to_save == [Hs |-> Hs, vqe_params |-> vqe_params, circuit_fun |-> circuit_fun]

\* vqe.save (lines 367-374): the file is written anew at every call
Save ==
  /\ pc \in Outside
  /\ file' = Value(things_to_save)
  /\ UNCHANGED <<engineVars, argVars, frameVars, pc, runs, at_call, calls, loaded, fnVars>>

\* load_vqe (lines 391-399): the engine it returns
LoadKeepsRandom(blob) == vqe_init(blob.Hs, blob.circuit_fun, LoadDraw)
load_vqe(blob) ==
  [vqe_init(blob.Hs, blob.circuit_fun, LoadDraw) EXCEPT !.vqe_params = blob.vqe_params]

Load ==
  /\ pc \in Outside
  /\ file.set
  /\ loaded' = Value(load_vqe(file.val))
  /\ UNCHANGED <<engineVars, argVars, frameVars, pc, runs, at_call, calls, file, fnVars>>

\* The first call of train() on an engine: recycle mode reads neither
\* save_trajectories nor epochs_batch_size and is called with one value of
\* each.
TrainCalls ==
  {c \in [n_epochs : 1..MaxEpochs, reg : RegVals, recycle : BOOLEAN,
          save_trajectories : BOOLEAN, epochs_batch_size : BatchSizes] :
     c.recycle => (~c.save_trajectories /\ c.epochs_batch_size = 1)}

\* The later calls of train() on the same engine: one epoch in either mode,
\* the keyword arguments reg, save_trajectories and epochs_batch_size left
\* at their defaults.
LaterCalls ==
  [n_epochs : {1}, reg : {0}, recycle : BOOLEAN,
   save_trajectories : {FALSE}, epochs_batch_size : {DefaultBatchSize}]

\* An engine is followed through MaxRuns calls of train(), with save and
\* load_vqe between any two of them.
Next ==
  \/ /\ runs < MaxRuns
     /\ \E c \in (IF runs = 0 THEN TrainCalls ELSE LaterCalls), f \in BOOLEAN :
           Train(c.n_epochs, c.reg, c.recycle, c.save_trajectories,
                 c.epochs_batch_size, f)
  \/ \E fe \in BOOLEAN, ff \in BOOLEAN : IndepEpoch(fe, ff)
  \/ FirstEpoch
  \/ FirstDone
  \/ PointStart
  \/ RegEpoch
  \/ PointDone
  \/ \E fe \in BOOLEAN, fs \in BOOLEAN : Finalize(fe, fs)
  \/ Save
  \/ Load

Spec == Init /\ [][Next]_vars

\* ------------------------------------------ long independent-mode runs
\* Runs long enough to cross the trajectory stride several times: a
\* single-point grid, trained in independent mode only, without regularizer,
\* for a number of epochs at or just after a multiple of the stride, every
\* jitted call succeeding.
MaxStrides == 2
MaxLongRuns == 2
LongEpochs ==
  {k * TrajectoryStride + d : k \in 0..MaxStrides, d \in {0, 1}} \ {0}

InitLong ==
  /\ Constructed(CHOOSE a \in ConstructorArgs : a[1].n_states = 1 /\ a[2] = "circuit_ising")
  /\ fn_in = NoCall /\ fn_out = NoCall

NextLong ==
  \/ /\ runs < MaxLongRuns
     /\ \E e \in LongEpochs, sv \in BOOLEAN, b \in BatchSizes :
           Train(e, 0, FALSE, sv, b, FALSE)
  \/ IndepEpoch(FALSE, FALSE)
  \/ Finalize(FALSE, FALSE)

SpecLong == InitLong /\ [][NextLong]_vars

\* ============================================= the losses on exact numbers
\* A complex number is <<re, im>> over the integers, a state a sequence of
\* amplitudes, a matrix a sequence of rows.  jnp.mean is the exact quotient
\* [num, den]; den = 0 is the nan jnp.mean returns for an empty array.
MaxGrid == 3

C(re, im) == <<re, im>>
CAdd(a, b) == <<a[1] + b[1], a[2] + b[2]>>
CMul(a, b) == <<a[1] * b[1] - a[2] * b[2], a[1] * b[2] + a[2] * b[1]>>
Conj(v) == [i \in 1..Len(v) |-> <<v[i][1], -v[i][2]>>]
RECURSIVE CSum(_)
CSum(v) == IF v = <<>> THEN C(0, 0) ELSE CAdd(v[1], CSum(Tail(v)))
RECURSIVE Sum(_)
Sum(v) == IF v = <<>> THEN 0 ELSE v[1] + Sum(Tail(v))
\* a @ b for two vectors, a @ M for a vector and a matrix
Dot(a, b) == CSum([i \in 1..Len(a) |-> CMul(a[i], b[i])])
VecMat(a, M) == [j \in 1..Len(a) |-> CSum([i \in 1..Len(a) |-> CMul(a[i], M[i][j])])]

Mean(v) == [num |-> Sum(v), den |-> Len(v)]
RAdd(a, b) == [num |-> a.num * b.den + b.num * a.den, den |-> a.den * b.den]
RScale(k, a) == [num |-> k * a.num, den |-> a.den]
IsNan(a) == a.den = 0
\* == on floats: nan equals nothing
REq(a, b) == ~IsNan(a) /\ ~IsNan(b) /\ a.num * b.den = b.num * a.den

PauliZ == <<<<C(1, 0), C(0, 0)>>, <<C(0, 0), C(-1, 0)>>>>
PauliX == <<<<C(0, 0), C(1, 0)>>, <<C(1, 0), C(0, 0)>>>>
Hamiltonians == {PauliZ, PauliX}

\* One-qubit circuit RY(p[1]) then RX(p[2]) on |0>, angles in units of pi.
Angles == {0, 1}
RYpi(a, s) == IF a % 2 = 0 THEN s ELSE <<CMul(C(-1, 0), s[2]), s[1]>>
RXpi(a, s) == IF a % 2 = 0 THEN s ELSE <<CMul(C(0, -1), s[2]), CMul(C(0, -1), s[1])>>
circuit_1q(p) == RXpi(p[2], RYpi(p[1], <<C(1, 0), C(0, 0)>>))
\* vqe_state (lines 165-169) and its vmap (line 183) on numbers
n_vqe_state(p) == circuit_1q(p)
n_v_vqe_state(ps) == [i \in 1..Len(ps) |-> n_vqe_state(ps[i])]

\* compute_E (lines 192-193) and its vmap (line 196) on numbers
n_compute_E(state, Hmat) == Dot(VecMat(Conj(state), Hmat), state)
n_v_compute_E(sts, Hmats) == [i \in 1..Len(sts) |-> n_compute_E(sts[i], Hmats[i])]
Real(v) == [i \in 1..Len(v) |-> v[i][1]]

\* jnp.square(jnp.abs(jnp.conj(s1) @ s2)): losses.py lines 10 and 18,
\* vqe.py line 290
FidelityWithoutConj(s1, s2) ==
  LET z == Dot(s1, s2) IN z[1] * z[1] + z[2] * z[2]
vqe_fidelty(s1, s2) ==
  LET z == Dot(Conj(s1), s2) IN z[1] * z[1] + z[2] * z[2]
\* losses.vqe_fidelties_neighbouring (lines 16-23):
\* jnp.mean(v_fidelty(states[:-1], states[1:]))
FidelitiesWithWrapAround(sts) ==
  Mean([i \in 1..Len(sts) |-> vqe_fidelty(sts[i], sts[(i % Len(sts)) + 1])])
vqe_fidelties_neighbouring(sts) ==
  Mean([i \in 1..(Len(sts) - 1) |-> vqe_fidelty(sts[i], sts[i + 1])])

\* loss of the independent mode (lines 228-235)
LossAlwaysRegularized(ps, Hmats, r) ==
  LET pred_states == n_v_vqe_state(ps)
      e == n_v_compute_E(pred_states, Hmats)
  IN RAdd(Mean(Real(e)), RScale(r, vqe_fidelties_neighbouring(pred_states)))
loss(ps, Hmats, r) ==
  LET pred_states == n_v_vqe_state(ps)
      e == n_v_compute_E(pred_states, Hmats)
  IN IF r # 0
     THEN RAdd(Mean(Real(e)), RScale(r, vqe_fidelties_neighbouring(pred_states)))
     ELSE Mean(Real(e))

\* the rows of t in the order perm (a permutation of 0..Len(t)-1)
Permuted(t, perm) == [i \in 1..Len(t) |-> Row(t, perm[i])]

LossCalls ==
  UNION {[fn : {"loss"}, mat_Hs : [1..n -> Hamiltonians],
          params : [1..n -> [1..2 -> Angles]], reg : RegVals, perm : Perms(n)]
         : n \in 1..MaxGrid}

\* The loss applied to a grid and to the same grid with Hamiltonians and
\* parameter rows permuted together, and the neighbouring-fidelity penalty of
\* the grid's states.
InitLoss ==
  /\ Constructed(CHOOSE a \in ConstructorArgs : a[1].n_states = 1 /\ a[2] = "circuit_ising")
  /\ fn_in \in LossCalls
  /\ fn_out = NoCall

EvalLoss ==
  /\ fn_in.fn = "loss" /\ fn_out = NoCall
  /\ fn_out' = [fn |-> "loss",
                value |-> loss(fn_in.params, fn_in.mat_Hs, fn_in.reg),
                penalty |-> vqe_fidelties_neighbouring(n_v_vqe_state(fn_in.params)),
                permuted |-> loss(Permuted(fn_in.params, fn_in.perm),
                                  Permuted(fn_in.mat_Hs, fn_in.perm), fn_in.reg)]
  /\ UNCHANGED <<engineVars, argVars, frameVars, pc, runs, at_call, calls, persistVars, fn_in>>

SpecLoss == InitLoss /\ [][EvalLoss]_vars

\* ------------------------------------------------ the fidelity on its own
MaxAmp == 1
\* one-qubit states with Gaussian-integer amplitudes (not normalized)
Amplitudes == (-MaxAmp..MaxAmp) \X (-MaxAmp..MaxAmp)
StateVectors == [1..2 -> Amplitudes]
Phases == {C(1, 0), C(-1, 0), C(0, 1), C(0, -1)}
Scaled(u, v) == [i \in 1..Len(v) |-> CMul(u, v[i])]
\* <a|a>
Norm2(v) == Sum([i \in 1..Len(v) |-> v[i][1] * v[i][1] + v[i][2] * v[i][2]])

FidelityCalls == [fn : {"vqe_fidelty"}, a : StateVectors, b : StateVectors]

InitFidelity ==
  /\ Constructed(CHOOSE a \in ConstructorArgs : a[1].n_states = 1 /\ a[2] = "circuit_ising")
  /\ fn_in \in FidelityCalls
  /\ fn_out = NoCall

\* The fidelity of a pair, of the swapped pair, of a state with itself, and
\* of the pair with either state multiplied by each phase.
EvalFidelity ==
  /\ fn_in.fn = "vqe_fidelty" /\ fn_out = NoCall
  /\ fn_out' = [fn |-> "vqe_fidelty",
                ab |-> vqe_fidelty(fn_in.a, fn_in.b),
                ba |-> vqe_fidelty(fn_in.b, fn_in.a),
                aa |-> vqe_fidelty(fn_in.a, fn_in.a),
                phased |-> [u \in Phases |->
                              <<vqe_fidelty(Scaled(u, fn_in.a), fn_in.b),
                                vqe_fidelty(fn_in.a, Scaled(u, fn_in.b))>>]]
  /\ UNCHANGED <<engineVars, argVars, frameVars, pc, runs, at_call, calls, persistVars, fn_in>>

SpecFidelity == InitFidelity /\ [][EvalFidelity]_vars

\* ------------------------------------------- compute_true_state on numbers
\* Hamiltonians diag(a, b) with integer levels; PauliZ is diag(1, -1).
Levels == {-1, 0, 1}
Diag(a, b) == <<<<C(a, 0), C(0, 0)>>, <<C(0, 0), C(b, 0)>>>>
DiagonalHamiltonians == {Diag(a, b) : a, b \in Levels}
Diagonal(H) == [k \in 1..Len(H) |-> H[k][k][1]]
\* jnp.linalg.eigh of a diagonal matrix (line 173): the eigenvalues in
\* ascending order and, as column k, the basis vector of the k-th of them.
\* ord names the diagonal entries in ascending order (1-based); where levels
\* coincide more than one order sorts them, and which one the library takes
\* is left open.
SortingOrders(d) ==
  {o \in [1..Len(d) -> 1..Len(d)] :
     /\ \A j, k \in 1..Len(d) : o[j] = o[k] => j = k
     /\ \A k \in 1..(Len(d) - 1) : d[o[k]] <= d[o[k + 1]]}
eigh(H, ord) ==
  [eigval |-> [k \in 1..Len(H) |-> Diagonal(H)[ord[k]]],
   eigvec |-> [r \in 1..Len(H) |->
                 [k \in 1..Len(H) |-> IF ord[k] = r THEN C(1, 0) ELSE C(0, 0)]]]
\* jnp.argmin: the first (0-based) index of the smallest entry
argmin(v) ==
  CHOOSE k \in 0..(Len(v) - 1) :
    /\ \A j \in 1..Len(v) : At(v, k) <= v[j]
    /\ \A j \in 0..(k - 1) : At(v, j) > At(v, k)
\* eigvec[:, k]
Column(M, k) == [r \in 1..Len(M) |-> At(M[r], k)]
\* compute_true_state (lines 171-177)
TrueStateOfMaxEigenvalue(H, ord) ==
  LET e == eigh(H, ord) IN Column(e.eigvec, Len(H) - 1)
n_compute_true_state(H, ord) ==
  LET e == eigh(H, ord) IN Column(e.eigvec, argmin(e.eigval))
\* jv_compute_true_state(self.Hs.mat_Hs) (lines 179-180)
n_jv_compute_true_state(Hmats, ords) ==
  [i \in 1..Len(Hmats) |-> n_compute_true_state(Hmats[i], ords[i])]

TrueStateCalls ==
  UNION {[fn : {"jv_compute_true_state"}, mat_Hs : [1..n -> DiagonalHamiltonians]]
         : n \in 1..MaxGrid}

InitTrueState ==
  /\ Constructed(CHOOSE a \in ConstructorArgs : a[1].n_states = 1 /\ a[2] = "circuit_ising")
  /\ fn_in \in TrueStateCalls
  /\ fn_out = NoCall

EvalTrueState ==
  /\ fn_in.fn = "jv_compute_true_state" /\ fn_out = NoCall
  /\ \E ords \in [1..Len(fn_in.mat_Hs) -> [1..2 -> 1..2]] :
        /\ \A i \in 1..Len(fn_in.mat_Hs) :
              ords[i] \in SortingOrders(Diagonal(fn_in.mat_Hs[i]))
        /\ fn_out' = [fn |-> "jv_compute_true_state",
                      value |-> n_jv_compute_true_state(fn_in.mat_Hs, ords)]
  /\ UNCHANGED <<engineVars, argVars, frameVars, pc, runs, at_call, calls, persistVars, fn_in>>

SpecTrueState == InitTrueState /\ [][EvalTrueState]_vars

\* ------------------------------------ visualization.VQE_fidelity_slice
\* What a call does up to its first exception: the exception raised, the
\* pyplot and grid plotting calls made before it, the attributes of the
\* engine read before it.  Lines 385-390 come first in the body; sidey, ymax,
\* sidex and xmax are local names bound only at lines 394-395, so the
\* argument expressions of lines 386 and 388 fail on their first name.
Axes == {-1, 0, 1, 2}
SliceValues == {0, 1}
SliceChecksAxisLate(vqeclass, slice_value, axis, truestates) ==
  IF axis \in {0, 1}
  THEN [raised |-> "UnboundLocalError", message |-> "sidey",
        plotted |-> <<>>, read |-> {}]
  ELSE [raised |-> "ValueError",
        message |-> "Invalid axis, it can only be either 0 or 1",
        plotted |-> <<"show_phasesplot", "show">>, read |-> {"Hs", "states"}]
VQE_fidelity_slice(vqeclass, slice_value, axis, truestates) ==
  IF axis = 0
  THEN [raised |-> "UnboundLocalError", message |-> "sidey",
        plotted |-> <<>>, read |-> {}]
  ELSE IF axis = 1
  THEN [raised |-> "UnboundLocalError", message |-> "sidex",
        plotted |-> <<>>, read |-> {}]
  ELSE [raised |-> "ValueError",
        message |-> "Invalid axis, it can only be either 0 or 1",
        plotted |-> <<>>, read |-> {}]

SliceCalls ==
  [fn : {"VQE_fidelity_slice"}, slice_value : SliceValues, axis : Axes,
   truestates : BOOLEAN]

InitSlice ==
  /\ \E a \in ConstructorArgs : Constructed(a)
  /\ fn_in \in SliceCalls
  /\ fn_out = NoCall

EvalSlice ==
  /\ fn_in.fn = "VQE_fidelity_slice" /\ fn_out = NoCall
  /\ fn_out' = [fn |-> "VQE_fidelity_slice",
                outcome |-> VQE_fidelity_slice(Results, fn_in.slice_value,
                                               fn_in.axis, fn_in.truestates)]
  /\ UNCHANGED <<engineVars, argVars, frameVars, pc, runs, at_call, calls, persistVars, fn_in>>

SpecSlice == InitSlice /\ [][EvalSlice]_vars


\* ======================================================== claims C1..C10
RecyclePcs == {"first_loop", "first_done", "points", "reg_loop", "point_done"}
\* the parameter vector p as it was after its first m runs of updates
Prefix(p, m) == [p EXCEPT !.hist = SubSeq(p.hist, 1, m)]
\* the parameter tensor after m joint updates of one optimizer instance
RECURSIVE After(_, _, _)
After(os, m, r) == IF m = 0 THEN get_params(os) ELSE After(update_all(get_params(os), os, r)[2], m - 1, r)

\* C1: in recycle mode the k-th point optimized in time is recycle_rule[k]:
\* the first loop optimizes against mat_Hs[recycle_rule[0]], the loop of the
\* k-th later point against mat_Hs[recycle_rule[k]], and so every run of
\* updates in the parameter vector's history names the rule's entry.
C1_FollowsRecycleRule ==
  /\ pc \in {"first_loop", "first_done"} => idx = At(Hs.recycle_rule, 0)
  /\ pc \in {"reg_loop", "point_done"} => idx = At(Hs.recycle_rule, pos + 1)
  /\ pc \in RecyclePcs =>
       \A j \in 1..Len(param.hist) : param.hist[j].H = Hs.recycle_rule[j]

\* C2: after a recycle-mode train() every row i of vqe_params holds a
\* parameter vector whose last updates were against mat_Hs[i]; no row is the
\* all-zero placeholder.
C2_ScatterPopulatesEveryRow ==
  (pc = "returned" /\ recycle) =>
     \A i \in 0..(Hs.n_states - 1) :
        /\ Row(vqe_params, i) # ZeroRow
        /\ Len(Row(vqe_params, i).hist) > 0
        /\ Row(vqe_params, i).hist[Len(Row(vqe_params, i).hist)].H = i

\* C3: in recycle mode every point after the first is regularized, in all
\* of its updates, toward the state of the final parameters of the point
\* optimized immediately before it: the j-th run of updates (j >= 2) has as
\* target the circuit applied to the vector as it was after j-1 runs, each
\* point is one run by a fresh optimizer, and previous_state is that state
\* for as long as the point is optimized.
C3_TargetIsImmediatePredecessor ==
  pc \in RecyclePcs =>
     /\ \A j \in 2..Len(param.hist) :
           /\ param.hist[j].target = j_vqe_state(Prefix(param, j - 1))
           /\ param.hist[j].first_step = 0
           /\ param.hist[j].steps <= n_epochs
     /\ pc \in {"points", "reg_loop", "point_done"} =>
           /\ previous_state = j_vqe_state(Prefix(param, pos + 1))
           /\ Len(param.hist) = pos + 1 + (IF pc = "points" \/ it = 0 THEN 0 ELSE 1)
C3_ThirdPointOptimized ==
  /\ pc = "point_done" /\ pos = 1 /\ n_epochs = 2
  /\ Len(param.hist) = 3 /\ param.hist[3].steps = 2
  /\ param.hist[3].target # param.hist[2].target

\* C4: a RuntimeError of the batched jitted path, in a periodic diagnostic
\* evaluation or in the final energy/state computation, never aborts train().
C4_BatchedFailureNeverAborts ==
  pc \notin {"raised_276", "raised_350", "raised_351"}

\* C5: a train() call that ends with an error has changed none of
\* vqe_params, MSE, vqe_e, states; one that returns leaves energies and
\* states that belong to the parameters it leaves.
C5_NoPartialResults ==
  /\ pc \in RaisedAt => Results = at_call
  /\ pc = "returned" =>
       /\ vqe_e = v_compute_vqe_E(vqe_params)
       /\ states = Value(v_vqe_state(vqe_params))

\* C6 (as claimed): when train() has completed on x and the file holds what
\* x.save wrote since, the engine load_vqe returns exposes the final
\* energies and states of x.
C6_LoadExposesResults ==
  [][(loaded' # loaded /\ pc = "returned" /\ file.val.vqe_params = vqe_params) =>
        /\ loaded'.val.vqe_e = vqe_e
        /\ loaded'.val.states = states]_vars
\* C6 (amended): x.save after a completed train() writes x's final
\* parameters, from which the circuit yields x's final energies and states
\* again; the engine load_vqe returns holds the parameters of the file, but
\* its own vqe_e is the empty list of the constructor and it has no states
\* attribute.
C6_LoadRecomputesResults ==
  /\ [][(file' # file /\ pc = "returned") =>
          /\ file'.val.vqe_params = vqe_params
          /\ v_compute_vqe_E(file'.val.vqe_params) = vqe_e
          /\ Value(v_vqe_state(file'.val.vqe_params)) = states]_vars
  /\ [][loaded' # loaded =>
          /\ loaded'.val.vqe_params = file.val.vqe_params
          /\ loaded'.val.vqe_e = <<>>
          /\ loaded'.val.states = Unset]_vars
C6_LoadedAfterTraining ==
  /\ loaded.set /\ pc = "returned"
  /\ Len(vqe_e) = Hs.n_states /\ states.set
  /\ vqe_params # at_call.vqe_params
  /\ loaded.val.vqe_params = vqe_params

\* C7: x.save writes the parameter tensor, the grid and the circuit
\* function x has at the call, and load_vqe returns an engine with exactly
\* the tensor of the file (not the random tensor its constructor drew), the
\* grid and circuit function of the file, which are x's, and the n_params
\* the constructor derives from them, equal to x's.
C7_LoadRestoresParameters ==
  /\ [][file' # file =>
          file' = Value([Hs |-> Hs, vqe_params |-> vqe_params,
                         circuit_fun |-> circuit_fun])]_vars
  /\ [][loaded' # loaded =>
          /\ loaded'.val.vqe_params = file.val.vqe_params
          /\ loaded'.val.Hs = file.val.Hs
          /\ loaded'.val.circuit_fun = file.val.circuit_fun]_vars
  /\ [](loaded.set =>
          /\ loaded.val.vqe_params # RandomTensor(Hs.n_states, LoadDraw)
          /\ loaded.val.Hs = Hs
          /\ loaded.val.circuit_fun = circuit_fun
          /\ loaded.val.n_params = n_params
          /\ loaded.val.n_states = Hs.n_states /\ loaded.val.N = Hs.N)
C7_LoadedOverwritesDraw ==
  /\ loaded.set
  /\ loaded.val.vqe_params # RandomTensor(Hs.n_states, LoadDraw)
  /\ loaded.val.vqe_params # RandomTensor(Hs.n_states, CtorDraw)
  /\ loaded.val.circuit_fun = "circuit_annni"

\* C8: as the docstring of train() has it, recycle=True runs the one joint
\* loop over all states and recycle=False the point-after-point loops.
C8_DocstringModes ==
  /\ pc = "indep_loop" => arg_recycle
  /\ pc \in RecyclePcs => ~arg_recycle

\* C9: with reg = 0 the independent-mode loss is the mean of the per-point
\* energies and does not change when Hamiltonians and parameter rows are
\* permuted together; with reg # 0 it is that mean plus reg times the
\* neighbouring fidelity (and the witness is a grid and a permutation that
\* change it).
C9_LossPermutation ==
  fn_out.fn = "loss" =>
     LET sts == n_v_vqe_state(fn_in.params)
         meanE == Mean(Real(n_v_compute_E(sts, fn_in.mat_Hs)))
     IN /\ fn_in.reg = 0 =>
             /\ REq(fn_out.value, fn_out.permuted)
             /\ REq(fn_out.value, meanE)
        /\ (fn_in.reg # 0 /\ Len(sts) > 1) =>
             REq(fn_out.value,
                 RAdd(meanE, RScale(fn_in.reg, vqe_fidelties_neighbouring(sts))))
C9_RegularizedLossChanges ==
  /\ fn_out.fn = "loss" /\ fn_in.reg # 0
  /\ ~IsNan(fn_out.value) /\ ~IsNan(fn_out.permuted)
  /\ ~REq(fn_out.value, fn_out.permuted)
  /\ REq(loss(fn_in.params, fn_in.mat_Hs, 0),
         loss(Permuted(fn_in.params, fn_in.perm), Permuted(fn_in.mat_Hs, fn_in.perm), 0))


\* C10 (as claimed): every entry of the recorded diagnostics is a pair
\* (energy MSE, mean fidelity).
C10_DiagnosticsArePairs ==
  \A k \in 1..Len(MSE) : DOMAIN MSE[k] = {"mse_of", "mean_fid"}
\* C10 (amended): in independent mode, every epochs_batch_size epochs the
\* energy MSE of the current parameters is appended, alone, to the
\* diagnostics; the mean fidelity of the same parameters is evaluated at the
\* same epochs for the progress description only and is not recorded.
C10_OnlyMSERecorded ==
  /\ \A k \in 1..Len(MSE) : DOMAIN MSE[k] = {"mse_of"}
  /\ (pc \in {"indep_loop", "finalize"} /\ ~arg_recycle) =>
       /\ Len(l_MSE) = it \div epochs_batch_size
       /\ \A k \in 1..Len(l_MSE) :
             l_MSE[k] = MSEof(v_compute_vqe_E(
                          After(opt_init(at_call.vqe_params), k * epochs_batch_size, reg)))
       /\ (it > 0 /\ it % epochs_batch_size = 0) =>
             progress_desc = Description(l_MSE[Len(l_MSE)],
                                         jv_fidelties(true_states.val, params))
C10_TwoSamplesRecorded ==
  /\ pc = "returned" /\ ~recycle
  /\ Len(MSE) = 2 /\ MSE[1] # MSE[2]


\* ======================================================= claims C11..C20
IndepPcs == {"indep_loop", "finalize"}
NoJitted(cs) == \A k \in 1..Len(cs) : cs[k] \notin JittedFunctions

\* C11: within one independent-mode run the fallback flag, once set, stays
\* set, and from then on no step of the run (energy MSE, mean fidelity)
\* invokes a jitted batched function.
C11_FallbackNeverJittedAgain ==
  [][(pc = "indep_loop" /\ oom) =>
        /\ pc' \in IndepPcs => oom'
        /\ NoJitted(calls')]_vars

\* C12: finalization computes vqe_e and states with the jitted functions
\* exactly when the fallback flag is not set at the end of the loop, and with
\* the non-jitted functions only when it is set; the flag is never set in
\* recycle mode and never reset inside a run.
C12_FinalizationFollowsFlag ==
  /\ [](pc \in RecyclePcs => ~oom)
  /\ [][(pc = "indep_loop" /\ oom /\ pc' \in IndepPcs) => oom']_vars
  /\ [][pc = "finalize" =>
          /\ ~oom => /\ calls' \in {<<"j_v_compute_vqe_E">>,
                                    <<"j_v_compute_vqe_E", "jv_vqe_state">>}
                     /\ pc' = "returned" =>
                           calls' = <<"j_v_compute_vqe_E", "jv_vqe_state">>
          /\ oom => /\ calls' = <<"v_compute_vqe_E", "v_vqe_state">>
                    /\ NoJitted(calls')
                    /\ pc' = "returned"]_vars
C12_FinalizedAfterFallback ==
  /\ pc = "returned" /\ ~recycle
  /\ calls = <<"v_compute_vqe_E", "v_vqe_state">>
  /\ Len(MSE) = 2

\* C13: an independent-mode run makes exactly n_epochs joint updates: after
\* the it-th pass every row i of the tensor carries it updates (one run of
\* it steps by the one optimizer, against mat_Hs[i]) on top of what the row
\* was at the call, the optimizer has made it steps, the loop is left for
\* finalization only at it = n_epochs whatever the diagnostics were, and each
\* pass advances it by one (or is ended by an uncaught exception).
C13_FixedEpochBudget ==
  /\ []((pc \in IndepPcs /\ ~arg_recycle) =>
          /\ pc = "indep_loop" => it < n_epochs
          /\ pc = "finalize" => it = n_epochs
          /\ opt_state.k = it
          /\ Len(params) = Hs.n_states
          /\ \A i \in 1..Hs.n_states :
                params[i].hist =
                  at_call.vqe_params[i].hist \o
                  (IF it = 0 THEN <<>>
                   ELSE <<[loss |-> IF reg # 0 THEN "mean_energy_plus_neighbouring"
                                    ELSE "mean_energy",
                           H |-> i - 1, reg |-> reg, target |-> NoState,
                           first_step |-> 0, steps |-> it]>>))
  /\ [][pc = "indep_loop" =>
          \/ it' = it + 1 /\ pc' \in IndepPcs /\ n_epochs' = n_epochs
          \/ pc' = "raised_276"]_vars
C13_BudgetSpent ==
  /\ pc = "finalize" /\ ~arg_recycle /\ it = 2 /\ Hs.n_states = 3
  /\ oom /\ Len(l_MSE) = 2
  /\ \A i \in 1..3 : params[i].hist[Len(params[i].hist)].steps = 2

\* C14: in a recycle-mode run the first optimized point gets exactly
\* 10 * n_epochs updates, all by the unregularized energy loss; every later
\* point gets exactly n_epochs updates, all by the regularized loss; when the
\* run reaches finalization the updates made are
\* 10 * n_epochs + (len(recycle_rule) - 1) * n_epochs in all.
C14_RecycleBudgets ==
  (pc \in (RecyclePcs \cup {"finalize"}) /\ arg_recycle) =>
     LET h == param.hist
         cur == IF pc = "reg_loop" /\ it > 0 THEN Len(h) ELSE 0
     IN /\ pc = "first_loop" =>
             /\ it < 10 * n_epochs
             /\ Len(h) = IF it = 0 THEN 0 ELSE 1
             /\ it > 0 => h[1].steps = it /\ h[1].loss = "energy"
        /\ pc # "first_loop" =>
             /\ Len(h) >= 1
             /\ h[1].steps = 10 * n_epochs
             /\ h[1].loss = "energy" /\ h[1].reg = 0 /\ h[1].target = NoState
             /\ \A j \in 2..Len(h) :
                   /\ h[j].loss = "energy_plus_fidelity" /\ h[j].reg = reg
                   /\ h[j].steps = IF j = cur THEN it ELSE n_epochs
             /\ pc = "reg_loop" => it < n_epochs
        /\ pc = "finalize" =>
             /\ Len(h) = Len(Hs.recycle_rule)
             /\ Sum([j \in 1..Len(h) |-> h[j].steps]) =
                  10 * n_epochs + (Len(Hs.recycle_rule) - 1) * n_epochs
C14_ThreePointsBudgeted ==
  /\ pc = "finalize" /\ arg_recycle /\ n_epochs = 2
  /\ Len(param.hist) = 3
  /\ param.hist[1].steps = 20 /\ param.hist[3].steps = 2

\* C15: a recycle-mode run appends nothing to its diagnostics list, and
\* after a recycle-mode train() the engine's MSE is empty, whatever MSE an
\* earlier independent-mode run had left on the engine.
C15_RecycleRecordsNothing ==
  /\ (pc \in (RecyclePcs \cup {"finalize"}) /\ arg_recycle) => l_MSE = <<>>
  /\ (pc \in {"returned", "raised_350", "raised_351"} /\ recycle) => MSE = <<>>
C15_EarlierDiagnosticsGone ==
  /\ pc = "returned" /\ recycle /\ MSE = <<>>
  /\ at_call.MSE # <<>> /\ Len(at_call.MSE) = 2

\* C16: the fidelity |conj(a).b|^2 is symmetric in its arguments, does not
\* change when either argument is multiplied by 1, -1, i or -i, and of a
\* state with itself it is the square of the state's squared norm, hence 1
\* for a unit-norm state.
C16_FidelitySymmetricPhaseInvariant ==
  fn_out.fn = "vqe_fidelty" =>
     /\ fn_out.ab = fn_out.ba
     /\ fn_out.aa = Norm2(fn_in.a) * Norm2(fn_in.a)
     /\ Norm2(fn_in.a) = 1 => fn_out.aa = 1
     /\ \A u \in Phases : fn_out.phased[u] = <<fn_out.ab, fn_out.ab>>
     /\ fn_out.ab >= 0 /\ fn_out.ab <= Norm2(fn_in.a) * Norm2(fn_in.b)
C16_UnitStatesDifferingByPhase ==
  /\ fn_out.fn = "vqe_fidelty"
  /\ Norm2(fn_in.a) = 1 /\ Norm2(fn_in.b) = 1
  /\ fn_in.a[2] = C(0, 1) /\ fn_in.b[2] = C(-1, 0)
  /\ fn_out.ab = 1 /\ fn_out.aa = 1

\* C17: true_states has one state per grid point, true_states[i] being a
\* unit eigenvector of mat_Hs[i] whose eigenvalue is the smallest one of
\* mat_Hs[i]; for diag(1, -1) it is [0, 1] with energy -1; a degenerate
\* minimum yields one of the eigenvectors of the minimum, and no error.
C17_TrueStatesAreGroundStates ==
  fn_out.fn = "jv_compute_true_state" =>
     /\ Len(fn_out.value) = Len(fn_in.mat_Hs)
     /\ \A i \in 1..Len(fn_in.mat_Hs) :
           LET g == fn_out.value[i]
               H == fn_in.mat_Hs[i]
               e == n_compute_E(g, H)
           IN /\ Norm2(g) = 1
              /\ VecMat(g, H) = Scaled(e, g)
              /\ e[2] = 0 /\ \A k \in 1..2 : e[1] <= H[k][k][1]
              /\ H = Diag(1, -1) => g = <<C(0, 0), C(1, 0)>> /\ e = C(-1, 0)
C17_GridWithDegenerateMinimum ==
  /\ fn_out.fn = "jv_compute_true_state"
  /\ Len(fn_in.mat_Hs) = 3
  /\ fn_in.mat_Hs[1] = PauliZ /\ fn_out.value[1] = <<C(0, 0), C(1, 0)>>
  /\ fn_in.mat_Hs[2] = Diag(-1, -1) /\ fn_out.value[2] = <<C(0, 0), C(1, 0)>>
  /\ fn_in.mat_Hs[3] = Diag(-1, 1) /\ fn_out.value[3] = <<C(1, 0), C(0, 0)>>

\* C18: VQE_fidelity_slice called with an axis other than 0 or 1 raises
\* ValueError with a message that names the valid values, having made no
\* plotting call and read nothing of the engine.
C18_InvalidAxisFailsFast ==
  (fn_out.fn = "VQE_fidelity_slice" /\ fn_in.axis \notin {0, 1}) =>
     /\ fn_out.outcome.raised = "ValueError"
     /\ fn_out.outcome.message = "Invalid axis, it can only be either 0 or 1"
     /\ fn_out.outcome.plotted = <<>>
     /\ fn_out.outcome.read = {}
C18_AxisTwoRejected ==
  /\ fn_out.fn = "VQE_fidelity_slice" /\ fn_in.axis = 2
  /\ fn_out.outcome.raised = "ValueError"
  /\ Hs.n_states = 3

\* C19: an independent-mode run creates its optimizer state once, around
\* the tensor it was called with, and every epoch advances that same state
\* by one step; a recycle-mode run creates one for the first point around
\* the fresh random vector and a new one at the start of every later point
\* around the vector the previous point left, which is itself unchanged by
\* the re-initialization; within a point every epoch advances the point's
\* own state by one step.
C19_OptimizerLifecycle ==
  /\ []((pc \in IndepPcs /\ ~arg_recycle) =>
          /\ opt_state.k = it /\ get_params(opt_state) = params
          /\ it = 0 => opt_state = opt_init(at_call.vqe_params)
          /\ it > 0 => \A i \in 1..Len(params) :
                          LET h == params[i].hist
                          IN h[Len(h)].first_step = 0 /\ h[Len(h)].steps = it)
  /\ [](pc \in {"first_loop", "reg_loop"} =>
          /\ opt_state.k = it /\ get_params(opt_state) = param
          /\ \A j \in 1..Len(param.hist) : param.hist[j].first_step = 0
          /\ (pc = "first_loop" /\ it = 0) => opt_state = opt_init(RandParam(runs)))
  /\ [][(pc = "points" /\ pc' = "reg_loop") =>
          /\ param' = param
          /\ opt_state' = opt_init(param)
          /\ previous_state = j_vqe_state(param)
          /\ Row(params, idx) = param]_vars
  /\ [][(pc \in {"indep_loop", "first_loop", "reg_loop"} /\ pc' # "raised_276") =>
          opt_state'.k = opt_state.k + 1]_vars
C19_SecondReinitialization ==
  /\ pc = "reg_loop" /\ pos = 1 /\ it = 0
  /\ opt_state = opt_init(param)
  /\ Len(param.hist) = 2 /\ param.hist[2].steps = 2

\* C20: in independent mode the diagnostics list grows by exactly one
\* sample in the passes with (it + 1) divisible by epochs_batch_size, also
\* when the jitted evaluation fails and the fallback is taken, and stays as
\* it is in every other pass; its k-th sample is the MSE of the tensor after
\* k * epochs_batch_size updates of this run; finalization hands the engine
\* exactly that list, floor(n_epochs / epochs_batch_size) samples long.
C20_DiagnosticsCadence ==
  /\ []((pc \in IndepPcs /\ ~arg_recycle) =>
          /\ Len(l_MSE) = it \div epochs_batch_size
          /\ \A k \in 1..Len(l_MSE) : \A i \in 1..Hs.n_states :
                LET en == l_MSE[k].mse_of[i]
                    p == en.E_of.psi
                IN /\ Len(l_MSE[k].mse_of) = Hs.n_states
                   /\ en.H = i - 1
                   /\ p.init = at_call.vqe_params[i].init
                   /\ Len(p.hist) = Len(at_call.vqe_params[i].hist) + 1
                   /\ p.hist[Len(p.hist)].steps = k * epochs_batch_size)
  /\ [][(pc = "indep_loop" /\ pc' \in IndepPcs) =>
          l_MSE' = IF (it + 1) % epochs_batch_size = 0
                   THEN Append(l_MSE, MSEof(v_compute_vqe_E(params')))
                   ELSE l_MSE]_vars
  /\ [][(pc = "finalize" /\ ~arg_recycle) =>
          /\ MSE' = l_MSE
          /\ Len(MSE') = n_epochs \div epochs_batch_size]_vars
C20_OneSampleOnFallbackEpoch ==
  /\ pc = "returned" /\ ~recycle
  /\ calls = <<"v_compute_vqe_E", "v_vqe_state">>
  /\ Len(MSE) = 1 /\ at_call.MSE = <<>>
  /\ Row(vqe_params, 0).hist[Len(Row(vqe_params, 0).hist)].steps = 2


\* ======================================================= claims C21..C24
\* C21: an independent-mode run starts with an empty trajectory; with
\* save_trajectories the tensor is appended right after the update of every
\* epoch it with it % 10 = 0, so that after it passes the trajectory holds
\* ceil(it / 10) tensors, the k-th being the tensor after 10 * (k - 1) + 1
\* updates of this run; without save_trajectories it stays empty; and
\* finalization leaves it as the loop left it.
C21_TrajectoryEveryTenEpochs ==
  /\ []((pc \in IndepPcs /\ ~arg_recycle) =>
          /\ trajectory.set
          /\ ~save_trajectories => trajectory.val = <<>>
          /\ save_trajectories =>
                /\ Len(trajectory.val) = (it + 9) \div 10
                /\ \A k \in 1..Len(trajectory.val) :
                      /\ Len(trajectory.val[k]) = Hs.n_states
                      /\ \A i \in 1..Hs.n_states :
                            LET p == trajectory.val[k][i]
                            IN /\ p.init = at_call.vqe_params[i].init
                               /\ Len(p.hist) = Len(at_call.vqe_params[i].hist) + 1
                               /\ p.hist[Len(p.hist)].steps = 10 * (k - 1) + 1)
  /\ [][pc = "finalize" => trajectory' = trajectory]_vars
C21_ThreeSamplesInSecondRun ==
  /\ pc = "returned" /\ ~recycle /\ runs = 2
  /\ Len(trajectory.val) = 3
  /\ Row(vqe_params, 0).hist[Len(Row(vqe_params, 0).hist)].steps = 21
  /\ Row(at_call.vqe_params, 0).hist # <<>>

\* the fidelities of the adjacent pairs of sts, added up pair by pair
RECURSIVE AdjacentSum(_)
AdjacentSum(sts) ==
  IF Len(sts) < 2 THEN 0
  ELSE vqe_fidelty(sts[1], sts[2]) + AdjacentSum(Tail(sts))

\* C22: the neighbouring-fidelity penalty of n states is the sum of the
\* fidelities of the n - 1 pairs (states[i], states[i+1]) divided by n - 1,
\* and nothing else enters it; for n = 1 it is the mean of no value, not a
\* number, and so is the independent-mode loss with reg # 0 (with reg = 0
\* the loss is a number).
C22_PenaltyOverAdjacentPairs ==
  fn_out.fn = "loss" =>
     LET sts == n_v_vqe_state(fn_in.params)
         n == Len(sts)
     IN /\ fn_out.penalty.den = n - 1
        /\ fn_out.penalty.num = AdjacentSum(sts)
        /\ n = 1 => /\ IsNan(fn_out.penalty)
                    /\ fn_in.reg # 0 => IsNan(fn_out.value)
                    /\ fn_in.reg = 0 => ~IsNan(fn_out.value)
        /\ n > 1 => ~IsNan(fn_out.penalty) /\ ~IsNan(fn_out.value)
C22_EndsAlikeNotPaired ==
  /\ fn_out.fn = "loss" /\ Len(fn_in.params) = 3
  /\ fn_out.penalty = [num |-> 0, den |-> 2]
  /\ vqe_fidelty(n_vqe_state(fn_in.params[3]), n_vqe_state(fn_in.params[1])) = 1

\* C23: on a single-point grid a recycle-mode run goes from the first
\* point's loop straight to finalization: no regularized update is made and
\* no state is used as a target; the one vector gets exactly 10 * n_epochs
\* unregularized updates against mat_Hs[0] and is stored as the one row of
\* the tensor, and a run that returns leaves that row with its one energy
\* and its one state.
C23_SinglePointRecycle ==
  /\ []((Hs.n_states = 1 /\ arg_recycle /\ pc \in (RecyclePcs \cup {"finalize"})) =>
          /\ pc \notin {"reg_loop", "point_done"}
          /\ \A j \in 1..Len(param.hist) :
                /\ param.hist[j].loss = "energy" /\ param.hist[j].target = NoState
                /\ param.hist[j].H = 0
          /\ Len(param.hist) <= 1
          /\ pc \in {"points", "finalize"} =>
                /\ params = <<param>>
                /\ param.init = RandParam(runs).init
                /\ Len(param.hist) = 1 /\ param.hist[1].steps = 10 * n_epochs)
  /\ []((Hs.n_states = 1 /\ recycle /\ pc = "returned") =>
          /\ Len(vqe_params) = 1
          /\ vqe_params[1].init = RandParam(runs).init
          /\ Len(vqe_params[1].hist) = 1
          /\ vqe_params[1].hist[1].loss = "energy"
          /\ vqe_params[1].hist[1].steps \in {10 * n : n \in 1..MaxEpochs}
          /\ vqe_e = <<compute_E(vqe_state(vqe_params[1]), 0)>>
          /\ states = Value(<<vqe_state(vqe_params[1])>>))
  /\ [][(Hs.n_states = 1 /\ arg_recycle /\ pc = "points") => pc' = "finalize"]_vars
  /\ [][(Hs.n_states = 1 /\ arg_recycle /\ pc = "finalize") =>
          pc' \in {"returned", "raised_350", "raised_351"}]_vars
C23_SinglePointReturned ==
  /\ Hs.n_states = 1 /\ recycle /\ pc = "returned"
  /\ vqe_params[1].hist[1].steps = 20
  /\ Len(vqe_e) = 1 /\ Len(states.val) = 1

\* C24: between calls, whenever the engine (or an engine load_vqe returned)
\* has states and energies, they are the circuit outputs and the energies
\* of the vqe_params it holds at that moment.
C24_StatesMatchParameters ==
  /\ (pc \in Outside /\ states.set /\ vqe_e # <<>>) =>
        /\ states = Value(v_vqe_state(vqe_params))
        /\ vqe_e = v_compute_vqe_E(vqe_params)
  /\ (loaded.set /\ loaded.val.states.set /\ loaded.val.vqe_e # <<>>) =>
        /\ loaded.val.states = Value(v_vqe_state(loaded.val.vqe_params))
        /\ loaded.val.vqe_e = v_compute_vqe_E(loaded.val.vqe_params)

====
